---- MODULE Spec2Model ----
(***************************************************************************)
(* Operational alerts notebook (alertas_operacionais_pyspark_databricks):  *)
(* credentials, lazy Spark plans over two tables, filter, capped export,   *)
(* SMTP send and run metrics.                                              *)
(*                                                                         *)
(* Representation.  A string is a sequence of one-character strings, so    *)
(* that trim/upper/length are computed character by character.  SQL NULL   *)
(* and Python None are NULL.  A nullable integer or date column uses       *)
(* NULL_INT.  Spark's three-valued booleans are SqlTrue/SqlFalse/SqlNull.  *)
(* A date is a day number; its text form is the decimal day number, and    *)
(* to_date parses it (anything else parses to NULL).                       *)
(***************************************************************************)
EXTENDS Integers, Sequences, FiniteSets, TLC

NULL == <<"NULL">>
NULL_INT == -1
SqlTrue == "true"
SqlFalse == "false"
SqlNull == "null"

(* ----------------------------- bounds --------------------------------- *)
MaxFact == 2
MaxDim == 2
MaxWrites == 1
CURRENT_DATE == 100

(* ------------------------ section 1: parameters ----------------------- *)
SLA_DIAS == 15
COST_CENTER_FILTRO == <<"D", "0", "1", "0">>
\* The source caps the export at 2000 rows; the cap is scaled to the table
\* sizes explored here so that both sides of min(count, cap) occur.
MAX_LINHAS_EXCEL == 2

(* ------------------------- SQL scalar functions ----------------------- *)
LowerLetters == <<"a", "b", "c", "d", "e", "f", "g", "h", "i", "j", "k", "l", "m",
                  "n", "o", "p", "q", "r", "s", "t", "u", "v", "w", "x", "y", "z">>
UpperLetters == <<"A", "B", "C", "D", "E", "F", "G", "H", "I", "J", "K", "L", "M",
                  "N", "O", "P", "Q", "R", "S", "T", "U", "V", "W", "X", "Y", "Z">>
DigitChars == <<"0", "1", "2", "3", "4", "5", "6", "7", "8", "9">>

UpperChar(c) ==
    IF \E i \in 1..26 : LowerLetters[i] = c
    THEN UpperLetters[CHOOSE i \in 1..26 : LowerLetters[i] = c]
    ELSE c

upper(s) == IF s = NULL THEN NULL ELSE [i \in 1..Len(s) |-> UpperChar(s[i])]

MinOf(S) == CHOOSE x \in S : \A y \in S : x <= y
MaxOf(S) == CHOOSE x \in S : \A y \in S : x >= y

\* Spark's trim removes the space character (U+0020) from both ends, and
\* nothing else.
trim(s) ==
    IF s = NULL THEN NULL
    ELSE LET keep == {i \in 1..Len(s) : s[i] # " "}
         IN IF keep = {} THEN <<>> ELSE SubSeq(s, MinOf(keep), MaxOf(keep))

length(s) == IF s = NULL THEN NULL_INT ELSE Len(s)

isNull(s) == IF s = NULL THEN SqlTrue ELSE SqlFalse

SqlNot(b) == IF b = SqlNull THEN SqlNull ELSE IF b = SqlTrue THEN SqlFalse ELSE SqlTrue

SqlOr(a, b) ==
    IF a = SqlTrue \/ b = SqlTrue THEN SqlTrue
    ELSE IF a = SqlNull \/ b = SqlNull THEN SqlNull ELSE SqlFalse

SqlEq(a, b) ==
    IF a = NULL \/ b = NULL THEN SqlNull ELSE IF a = b THEN SqlTrue ELSE SqlFalse

IntEq(a, b) ==
    IF a = NULL_INT \/ b = NULL_INT THEN SqlNull ELSE IF a = b THEN SqlTrue ELSE SqlFalse

IntGt(a, b) ==
    IF a = NULL_INT \/ b = NULL_INT THEN SqlNull ELSE IF a > b THEN SqlTrue ELSE SqlFalse

\* Column.isin(list) over a list of non-null literals.
isin(v, list) ==
    IF v = NULL THEN SqlNull
    ELSE IF \E i \in 1..Len(list) : list[i] = v THEN SqlTrue ELSE SqlFalse

DigitValue(c) == (CHOOSE i \in 1..10 : DigitChars[i] = c) - 1

IsDigit(c) == \E i \in 1..10 : DigitChars[i] = c

RECURSIVE ParseNat(_)
ParseNat(s) ==
    IF Len(s) = 0 THEN 0
    ELSE 10 * ParseNat(SubSeq(s, 1, Len(s) - 1)) + DigitValue(s[Len(s)])

to_date(s) ==
    IF s = NULL THEN NULL_INT
    ELSE IF Len(s) > 0 /\ \A i \in 1..Len(s) : IsDigit(s[i]) THEN ParseNat(s)
    ELSE NULL_INT

datediff(end, start) ==
    IF end = NULL_INT \/ start = NULL_INT THEN NULL_INT ELSE end - start

RECURSIVE DateText(_)
DateText(n) ==
    IF n < 10 THEN <<DigitChars[n + 1]>>
    ELSE DateText(n \div 10) \o <<DigitChars[(n % 10) + 1]>>

(* ---------------- section 3: read and normalise (lazy plans) ---------- *)
\* 3.2: request_owner_norm and issue_date_dt are added to every fact row.
df_fact(fact_raw) ==
    [i \in 1..Len(fact_raw) |->
        [request_owner_norm |-> upper(trim(fact_raw[i].request_owner)),
         issue_date_dt |-> to_date(fact_raw[i].issue_date)] @@ fact_raw[i]]

\* 3.3: username_norm, and email under the name user_email.
df_users(users_raw) ==
    [i \in 1..Len(users_raw) |->
        [username_norm |-> upper(trim(users_raw[i].username)),
         user_email |-> users_raw[i].email]]

\* 3.4: left join on request_owner_norm == username_norm.  A fact row gets
\* one output row per matching user row, or one row of NULLs when none
\* matches (NULL == x is never true).
RECURSIVE LeftJoin(_, _)
LeftJoin(f, u) ==
    IF f = <<>> THEN <<>>
    ELSE LET row == Head(f)
             m == SelectSeq(u, LAMBDA x :
                      SqlEq(row.request_owner_norm, x.username_norm) = SqlTrue)
             out == IF m = <<>>
                    THEN <<[username_norm |-> NULL, user_email |-> NULL] @@ row>>
                    ELSE [i \in 1..Len(m) |-> m[i] @@ row]
         IN out \o LeftJoin(Tail(f), u)

df_joined(fact_raw, users_raw) ==
    LET j == LeftJoin(df_fact(fact_raw), df_users(users_raw))
    IN [i \in 1..Len(j) |-> [notification_email |-> j[i].user_email] @@ j[i]]

(* ---------------- section 4: business rules and filters --------------- *)
tarefas_excluir ==
    << <<"A", "u", "t", "o", " ", "-", " ", "S", "y", "n", "c", " ", "M", "e", "t", "a", "d", "a", "t", "a">>,
       <<"A", "u", "t", "o", " ", "-", " ", "R", "e", "t", "r", "y", " ", "I", "n", "t", "e", "g", "r", "a", "t", "i", "o", "n">>,
       <<"A", "u", "t", "o", " ", "-", " ", "G", "e", "n", "e", "r", "a", "t", "e", " ", "R", "e", "f", "e", "r", "e", "n", "c", "e", " ", "D", "o", "c">>,
       <<"E", "n", "d", " ", "-", " ", "F", "i", "n", "a", "l", "i", "z", "e", "d">> >>

WAREHOUSE == <<"W", "A", "R", "E", "H", "O", "U", "S", "E">>
CUSTOMER_SUPPORT == <<"C", "U", "S", "T", "O", "M", "E", "R", "_", "S", "U", "P", "P", "O", "R", "T">>
FINANCE_OPS == <<"F", "I", "N", "A", "N", "C", "E", "_", "O", "P", "S">>
FINANCE == <<"F", "I", "N", "A", "N", "C", "E">>
WAREHOUSE_EMAIL == <<"w", "a", "r", "e", "h", "o", "u", "s", "e", ".", "t", "e", "a", "m", "@", "e", "x", "a", "m", "p", "l", "e", ".", "c", "o", "m">>
SUPPORT_EMAIL == <<"s", "u", "p", "p", "o", "r", "t", ".", "t", "e", "a", "m", "@", "e", "x", "a", "m", "p", "l", "e", ".", "c", "o", "m">>
FINANCE_EMAIL == <<"f", "i", "n", "a", "n", "c", "e", ".", "o", "p", "s", "@", "e", "x", "a", "m", "p", "l", "e", ".", "c", "o", "m">>
Pending == <<"P", "e", "n", "d", "i", "n", "g">>

\* Mutant of email_vazio: the trim is forgotten.
email_vazio_untrimmed(row) ==
    SqlOr(isNull(row.notification_email),
          IntEq(length(row.notification_email), 0))

\* 4.2
email_vazio(row) ==
    SqlOr(isNull(row.notification_email),
          IntEq(length(trim(row.notification_email)), 0))

\* 4.3
resp_norm(row) == upper(trim(row.responsible_area))

\* 4.4: F.when(...).when(...).otherwise(NULL); a branch is taken when its
\* condition is true (neither false nor NULL).
fallback_email(row) ==
    IF SqlNot(email_vazio(row)) = SqlTrue THEN row.notification_email
    ELSE IF SqlEq(resp_norm(row), WAREHOUSE) = SqlTrue THEN WAREHOUSE_EMAIL
    ELSE IF SqlEq(resp_norm(row), CUSTOMER_SUPPORT) = SqlTrue THEN SUPPORT_EMAIL
    ELSE IF isin(resp_norm(row), <<FINANCE_OPS, FINANCE>>) = SqlTrue THEN FINANCE_EMAIL
    ELSE NULL

df_base_plan(fact_raw, users_raw) ==
    LET j == df_joined(fact_raw, users_raw)
    IN [i \in 1..Len(j) |-> [j[i] EXCEPT !.notification_email = fallback_email(j[i])]]

\* DataFrame.where keeps the rows whose condition is true; a row whose
\* condition is false or NULL is dropped.
Kept(cond) == cond = SqlTrue

task_not_excluded(row) == SqlNot(isin(row.task_name, tarefas_excluir))
flag_pending(row) == SqlEq(row.processing_flag, Pending)
cost_center_match(row) == SqlEq(row.cost_center, COST_CENTER_FILTRO)
issue_date_not_null(row) == IF row.issue_date_dt = NULL_INT THEN SqlFalse ELSE SqlTrue

\* Mutant of over_sla: the boundary day is let through.
over_sla_inclusive(row) ==
    SqlOr(IntGt(datediff(CURRENT_DATE, row.issue_date_dt), SLA_DIAS),
          IntEq(datediff(CURRENT_DATE, row.issue_date_dt), SLA_DIAS))

over_sla(row) == IntGt(datediff(CURRENT_DATE, row.issue_date_dt), SLA_DIAS)

\* 4.5: the first four where() calls.
before_sla_plan(base) ==
    LET w1 == SelectSeq(base, LAMBDA r : Kept(task_not_excluded(r)))
        w2 == SelectSeq(w1, LAMBDA r : Kept(flag_pending(r)))
        w3 == SelectSeq(w2, LAMBDA r : Kept(cost_center_match(r)))
    IN SelectSeq(w3, LAMBDA r : Kept(issue_date_not_null(r)))

\* 4.5: the fifth where() call, on the SLA.
df_filtrado_plan(base) ==
    SelectSeq(before_sla_plan(base), LAMBDA r : Kept(over_sla(r)))

(* ---------------- section 5: projection and row cap ------------------- *)
\* 5.1: the report columns that the model carries, issue_date_dt under the
\* name issue_date.
select_excel(row) ==
    [document_id |-> row.document_id,
     issue_date |-> row.issue_date_dt,
     responsible_area |-> row.responsible_area,
     request_owner |-> row.request_owner,
     task_name |-> row.task_name,
     processing_flag |-> row.processing_flag,
     cost_center |-> row.cost_center,
     notification_email |-> row.notification_email]

limit(rows, n) == SubSeq(rows, 1, IF Len(rows) < n THEN Len(rows) ELSE n)

df_excel_plan(filtrado) ==
    limit([i \in 1..Len(filtrado) |-> select_excel(filtrado[i])], MAX_LINHAS_EXCEL)

(* ------------------------------ state --------------------------------- *)
VARIABLES
    pc,            \* the notebook cell/step about to run, "done" or "failed"
    error,         \* the exception that ended the run, or "none"
    secret_ok,     \* secret name -> whether dbutils.secrets.get succeeds
    environ,       \* os.environ: variable name -> value, NULL when unset
    SMTP_USER,     \* NULL until assigned
    SMTP_PASSWORD, \* NULL until assigned
    fact,          \* analytics.ops_core.fact_documents_backlog, as stored now
    users,         \* analytics.ops_core.dim_users, as stored now
    writes,        \* writes other jobs have made to the fact table so far
    jobs,          \* Spark jobs (actions) this run has executed
    df_fact_raw,   \* the fact rows scanned by the latest job
    df_base,       \* df_base as evaluated by the latest job
    df_filtrado,   \* df_filtrado as evaluated by the latest job
    qtd,           \* NULL_INT until assigned
    df_pandas,     \* the collected rows
    defined,       \* the names among df_pandas, file_name, file_path bound so far
    artifact,      \* rows of the spreadsheet written to file_path, <<>> if none
    smtp_log,      \* the SMTP calls made, each with its outcome
    metrics_out    \* the METRICS records printed

vars == <<pc, error, secret_ok, environ, SMTP_USER, SMTP_PASSWORD, fact, users,
          writes, jobs, df_fact_raw, df_base, df_filtrado, qtd, df_pandas,
          defined, artifact, smtp_log, metrics_out>>

SecretValue(key) == IF key = "USER" THEN <<"s", "v", "c">> ELSE <<"p", "w">>
FILE_PATH == "/tmp/operational_alerts_D010_today.xlsx"

(* ----------------------- section 1.6: credentials --------------------- *)
\* Mutant of get_secret_or_env: only an unset variable raises, an empty one
\* is returned.
get_secret_or_env_unset_only(secret_key, env_key) ==
    IF secret_ok[secret_key] THEN [raised |-> FALSE, value |-> SecretValue(secret_key)]
    ELSE IF environ[env_key] = NULL THEN [raised |-> TRUE, value |-> NULL]
    ELSE [raised |-> FALSE, value |-> environ[env_key]]

\* try: secrets.get; except: v = os.getenv(env_key); "if not v: raise ValueError".
get_secret_or_env(secret_key, env_key) ==
    IF secret_ok[secret_key] THEN [raised |-> FALSE, value |-> SecretValue(secret_key)]
    ELSE IF environ[env_key] = NULL \/ environ[env_key] = <<>>
         THEN [raised |-> TRUE, value |-> NULL]
    ELSE [raised |-> FALSE, value |-> environ[env_key]]

\* 1.7, line 82
LoadSmtpUser ==
    /\ pc = "cred_user"
    /\ LET r == get_secret_or_env("USER", "SMTP_USER")
       IN IF r.raised
          THEN /\ pc' = "failed"
               /\ error' = "ValueError"
               /\ UNCHANGED SMTP_USER
          ELSE /\ pc' = "cred_password"
               /\ SMTP_USER' = r.value
               /\ UNCHANGED error
    /\ UNCHANGED <<secret_ok, environ, SMTP_PASSWORD, fact, users, writes, jobs,
                   df_fact_raw, df_base, df_filtrado, qtd, df_pandas, defined,
                   artifact, smtp_log, metrics_out>>

\* 1.7, line 83
LoadSmtpPassword ==
    /\ pc = "cred_password"
    /\ LET r == get_secret_or_env("PASSWORD", "SMTP_PASSWORD")
       IN IF r.raised
          THEN /\ pc' = "failed"
               /\ error' = "ValueError"
               /\ UNCHANGED SMTP_PASSWORD
          ELSE /\ pc' = "read"
               /\ SMTP_PASSWORD' = r.value
               /\ UNCHANGED error
    /\ UNCHANGED <<secret_ok, environ, SMTP_USER, fact, users, writes, jobs,
                   df_fact_raw, df_base, df_filtrado, qtd, df_pandas, defined,
                   artifact, smtp_log, metrics_out>>

(* ----------------------- sections 3 to 5: Spark jobs ------------------- *)
\* 3.1: spark.table is lazy; the two count() calls are jobs that scan the
\* tables as they are stored now.
ReadTables ==
    /\ pc = "read"
    /\ pc' = "count"
    /\ jobs' = jobs + 2
    /\ df_fact_raw' = fact
    /\ UNCHANGED <<error, secret_ok, environ, SMTP_USER, SMTP_PASSWORD, fact, users,
                   writes, df_base, df_filtrado, qtd, df_pandas, defined,
                   artifact, smtp_log, metrics_out>>

\* Line 196: df_filtrado.count() runs the whole plan (sections 3.2 to 4.5).
CountFiltered ==
    /\ pc = "count"
    /\ pc' = "prepare"
    /\ jobs' = jobs + 1
    /\ df_fact_raw' = fact
    /\ df_base' = df_base_plan(fact, users)
    /\ df_filtrado' = df_filtrado_plan(df_base')
    /\ qtd' = Len(df_filtrado')
    /\ UNCHANGED <<error, secret_ok, environ, SMTP_USER, SMTP_PASSWORD, fact, users,
                   writes, df_pandas, defined, artifact, smtp_log, metrics_out>>

\* Lines 210-247: nothing to do when qtd == 0; otherwise toPandas() runs
\* the plan again, on the tables as they are stored now, under the row cap.
CollectPandas ==
    /\ pc = "prepare"
    /\ IF qtd = 0
       THEN /\ pc' = "notify"
            /\ UNCHANGED <<jobs, df_fact_raw, df_base, df_filtrado, df_pandas, defined>>
       ELSE /\ jobs' = jobs + 1
            /\ df_fact_raw' = fact
            /\ df_base' = df_base_plan(fact, users)
            /\ df_filtrado' = df_filtrado_plan(df_base')
            /\ df_pandas' = df_excel_plan(df_filtrado')
            /\ defined' = defined \cup {"df_pandas"}
            /\ pc' = IF df_pandas' = <<>> THEN "notify" ELSE "excel"
    /\ UNCHANGED <<error, secret_ok, environ, SMTP_USER, SMTP_PASSWORD, fact, users,
                   writes, qtd, artifact, smtp_log, metrics_out>>

\* Lines 249-284: file_name and file_path are bound and the spreadsheet is
\* written; the write may raise.
WriteExcel ==
    /\ pc = "excel"
    /\ defined' = defined \cup {"file_name", "file_path"}
    /\ \E ok \in BOOLEAN :
         IF ok
         THEN /\ artifact' = df_pandas
              /\ pc' = "notify"
              /\ UNCHANGED error
         ELSE /\ pc' = "failed"
              /\ error' = "ExcelWriteError"
              /\ UNCHANGED artifact
    /\ UNCHANGED <<secret_ok, environ, SMTP_USER, SMTP_PASSWORD, fact, users, writes,
                   jobs, df_fact_raw, df_base, df_filtrado, qtd, df_pandas,
                   smtp_log, metrics_out>>

\* Another job writes to the fact table while a Spark job of this run is
\* still ahead: the first row is deleted, or a new document with the
\* attributes of the last one is inserted.
ConcurrentWrite ==
    /\ pc \in {"read", "count", "prepare"}
    /\ writes < MaxWrites
    /\ fact # <<>>
    /\ writes' = writes + 1
    /\ \/ fact' = Tail(fact)
       \/ /\ Len(fact) < MaxFact
          /\ fact' = Append(fact,
                 [fact[Len(fact)] EXCEPT
                     !.document_id = 1 + MaxOf({fact[i].document_id : i \in 1..Len(fact)})])
    /\ UNCHANGED <<pc, error, secret_ok, environ, SMTP_USER, SMTP_PASSWORD, users,
                   jobs, df_fact_raw, df_base, df_filtrado, qtd, df_pandas, defined,
                   artifact, smtp_log, metrics_out>>

(* --------------------------- section 7: send --------------------------- *)
\* Lines 327-347: no send when qtd == 0; otherwise the message is built and
\* open(file_path) reads the attachment, a NameError when file_path was
\* never bound.
ComposeMessage ==
    /\ pc = "notify"
    /\ IF qtd = 0
       THEN pc' = "metrics" /\ UNCHANGED error
       ELSE IF "file_path" \notin defined
       THEN pc' = "failed" /\ error' = "NameError"
       ELSE pc' = "smtp_connect" /\ UNCHANGED error
    /\ UNCHANGED <<secret_ok, environ, SMTP_USER, SMTP_PASSWORD, fact, users, writes,
                   jobs, df_fact_raw, df_base, df_filtrado, qtd, df_pandas, defined,
                   artifact, smtp_log, metrics_out>>

SmtpPcs == {"smtp_connect", "smtp_starttls", "smtp_login", "smtp_sendmail", "smtp_quit"}

SmtpAfter(step) ==
    CASE step = "smtp_connect" -> "smtp_starttls"
      [] step = "smtp_starttls" -> "smtp_login"
      [] step = "smtp_login" -> "smtp_sendmail"
      [] step = "smtp_sendmail" -> "smtp_quit"
      [] step = "smtp_quit" -> "metrics"

Connects == Cardinality({i \in 1..Len(smtp_log) : smtp_log[i].call = "smtp_connect"})

\* Mutant of SmtpStep: a failed call is retried once from the connection.
SmtpStepRetry ==
    /\ pc \in SmtpPcs
    /\ \E ok \in BOOLEAN :
         /\ smtp_log' = Append(smtp_log, [call |-> pc, ok |-> ok])
         /\ IF ok
            THEN pc' = SmtpAfter(pc) /\ UNCHANGED error
            ELSE IF Connects < 2
            THEN pc' = "smtp_connect" /\ UNCHANGED error
            ELSE pc' = "failed" /\ error' = "SMTPException"
    /\ UNCHANGED <<secret_ok, environ, SMTP_USER, SMTP_PASSWORD, fact, users, writes,
                   jobs, df_fact_raw, df_base, df_filtrado, qtd, df_pandas, defined,
                   artifact, metrics_out>>

\* Mutant of SmtpStep: the except clause prints and does not raise.
SmtpStepSwallow ==
    /\ pc \in SmtpPcs
    /\ \E ok \in BOOLEAN :
         /\ smtp_log' = Append(smtp_log, [call |-> pc, ok |-> ok])
         /\ pc' = IF ok THEN SmtpAfter(pc) ELSE "metrics"
    /\ UNCHANGED <<error, secret_ok, environ, SMTP_USER, SMTP_PASSWORD, fact, users,
                   writes, jobs, df_fact_raw, df_base, df_filtrado, qtd, df_pandas,
                   defined, artifact, metrics_out>>

\* 7.4, lines 350-363: SMTP(), starttls, login, sendmail, quit, one call per
\* step.  A call that raises lands in the except clause, which prints and
\* re-raises.
SmtpStep ==
    /\ pc \in SmtpPcs
    /\ \E ok \in BOOLEAN :
         /\ smtp_log' = Append(smtp_log, [call |-> pc, ok |-> ok])
         /\ IF ok
            THEN pc' = SmtpAfter(pc) /\ UNCHANGED error
            ELSE pc' = "failed" /\ error' = "SMTPException"
    /\ UNCHANGED <<secret_ok, environ, SMTP_USER, SMTP_PASSWORD, fact, users, writes,
                   jobs, df_fact_raw, df_base, df_filtrado, qtd, df_pandas, defined,
                   artifact, metrics_out>>

(* -------------------------- section 8: metrics ------------------------- *)
\* Lines 373-390 (the "date" entry is left out).
metrics ==
    IF qtd = 0
    THEN [status |-> "no_action", filtered_records |-> 0,
          cost_center |-> COST_CENTER_FILTRO, sla_days |-> SLA_DIAS]
    ELSE [status |-> "email_sent", filtered_records |-> qtd,
          excel_rows |-> Len(df_pandas),
          cost_center |-> COST_CENTER_FILTRO, sla_days |-> SLA_DIAS,
          excel_path |-> FILE_PATH]

\* Lines 373-392: the else branch reads df_pandas and file_path.
EmitMetrics ==
    /\ pc = "metrics"
    /\ IF qtd # 0 /\ ~({"df_pandas", "file_path"} \subseteq defined)
       THEN /\ pc' = "failed"
            /\ error' = "NameError"
            /\ UNCHANGED metrics_out
       ELSE /\ pc' = "done"
            /\ metrics_out' = Append(metrics_out, metrics)
            /\ UNCHANGED error
    /\ UNCHANGED <<secret_ok, environ, SMTP_USER, SMTP_PASSWORD, fact, users, writes,
                   jobs, df_fact_raw, df_base, df_filtrado, qtd, df_pandas, defined,
                   artifact, smtp_log>>

(* ------------------------ inputs and specifications -------------------- *)
SecretKeys == {"USER", "PASSWORD"}
EnvKeys == {"SMTP_USER", "SMTP_PASSWORD"}
EnvValues == {NULL, <<>>, <<"e", "n", "v">>}

SeqsUpTo(S, n) == UNION {[1..k -> S] : k \in 0..n}

WithIds(rows) == [i \in 1..Len(rows) |-> [document_id |-> i] @@ rows[i]]

FactRow(owner, area, task, flag, cc, date) ==
    [request_owner |-> owner, responsible_area |-> area, task_name |-> task,
     processing_flag |-> flag, cost_center |-> cc, issue_date |-> date]

UserRow(name, mail) == [username |-> name, email |-> mail]

JDOE == <<"j", "d", "o", "e">>
AMY == <<"a", "m", "y">>
JDOE_PADDED == <<" ", "J", "D", "O", "E", " ">>
J_AT_X == <<"j", "@", "x", ".", "c", "o", "m">>
J_AT_X_PADDED == <<" ", "j", "@", "x", ".", "c", "o", "m", " ">>
REVIEW == <<"R", "e", "v", "i", "e", "w">>
DONE == <<"D", "o", "n", "e">>
D020 == <<"D", "0", "2", "0">>
HR == <<"H", "R">>

\* The state at the top of the notebook, for given secrets, environment and
\* stored tables.
Start(ok, env, f, u) ==
    /\ pc = "cred_user"
    /\ error = "none"
    /\ secret_ok = ok
    /\ environ = env
    /\ SMTP_USER = NULL
    /\ SMTP_PASSWORD = NULL
    /\ fact = f
    /\ users = u
    /\ writes = 0
    /\ jobs = 0
    /\ df_fact_raw = <<>>
    /\ df_base = <<>>
    /\ df_filtrado = <<>>
    /\ qtd = NULL_INT
    /\ df_pandas = <<>>
    /\ defined = {}
    /\ artifact = <<>>
    /\ smtp_log = <<>>
    /\ metrics_out = <<>>

AllSecretsOk == [k \in SecretKeys |-> TRUE]
NoEnv == [k \in EnvKeys |-> NULL]

\* Pipeline runs: a few documents (over the SLA with a known owner, over the
\* SLA with no owner, exactly at the SLA) and a directory in which two
\* entries normalise to the same username.
PipelineFacts ==
    {FactRow(JDOE, HR, REVIEW, Pending, COST_CENTER_FILTRO,
             DateText(CURRENT_DATE - SLA_DIAS - 1)),
     FactRow(NULL, <<" ", "w", "a", "r", "e", "h", "o", "u", "s", "e">>, REVIEW, Pending,
             COST_CENTER_FILTRO, DateText(CURRENT_DATE - SLA_DIAS - 5)),
     FactRow(JDOE, HR, REVIEW, Pending, COST_CENTER_FILTRO,
             DateText(CURRENT_DATE - SLA_DIAS))}

PipelineUsers ==
    {UserRow(JDOE_PADDED, J_AT_X), UserRow(JDOE, <<" ">>)}

CredentialCases == [ok : [SecretKeys -> BOOLEAN], env : [EnvKeys -> EnvValues]]

Init ==
    \E c \in CredentialCases, f \in SeqsUpTo(PipelineFacts, MaxFact),
       u \in SeqsUpTo(PipelineUsers, MaxDim) :
        Start(c.ok, c.env, WithIds(f), u)

Next ==
    \/ LoadSmtpUser
    \/ LoadSmtpPassword
    \/ ReadTables
    \/ CountFiltered
    \/ CollectPandas
    \/ WriteExcel
    \/ ComposeMessage
    \/ SmtpStep
    \/ EmitMetrics
    \/ ConcurrentWrite

Spec == Init /\ [][Next]_vars

\* Resolver and filter, record by record: one fact record drawn from the
\* product of the values below, against an empty directory or one entry
\* for JDOE with each kind of e-mail; the run goes as far as the count.
RecordOwners == {NULL, JDOE, AMY}
RecordAreas ==
    {NULL, HR, FINANCE,
     <<" ", "w", "a", "r", "e", "h", "o", "u", "s", "e", " ">>,
     <<"C", "u", "s", "t", "o", "m", "e", "r", "_", "S", "u", "p", "p", "o", "r", "t">>,
     <<"f", "i", "n", "a", "n", "c", "e", "_", "o", "p", "s", " ">>}
RecordTasks ==
    {NULL, REVIEW, tarefas_excluir[1], tarefas_excluir[4],
     <<"e", "n", "d", " ", "-", " ", "f", "i", "n", "a", "l", "i", "z", "e", "d">>,
     <<"E", "n", "d", " ", "-", " ", "F", "i", "n", "a", "l", "i", "z", "e", "d", " ">>}
RecordFlags == {NULL, Pending, DONE}
RecordCostCenters == {NULL, COST_CENTER_FILTRO, D020}
RecordDates ==
    {NULL, <<"n", "/", "a">>,
     DateText(CURRENT_DATE - SLA_DIAS - 1),
     DateText(CURRENT_DATE - SLA_DIAS),
     DateText(CURRENT_DATE - SLA_DIAS + 1)}
RecordEmails == {NULL, <<>>, <<" ", " ">>, <<"\t">>, <<" ", "\t">>, J_AT_X_PADDED}

RecordFacts ==
    {FactRow(o, a, t, f, c, d) :
        o \in RecordOwners, a \in RecordAreas, t \in RecordTasks,
        f \in RecordFlags, c \in RecordCostCenters, d \in RecordDates}

RecordUsers == {<<>>} \cup {<<UserRow(JDOE_PADDED, e)>> : e \in RecordEmails}

InitRecords ==
    \E r \in RecordFacts, u \in RecordUsers :
        Start(AllSecretsOk, NoEnv, WithIds(<<r>>), u)

NextRecords ==
    \/ LoadSmtpUser
    \/ LoadSmtpPassword
    \/ ReadTables
    \/ CountFiltered

SpecRecords == InitRecords /\ [][NextRecords]_vars

(* ------------------------------- claims -------------------------------- *)
Terminal == pc \in {"done", "failed"}
Counted == qtd # NULL_INT
InSeq(x, rows) == \E j \in 1..Len(rows) : rows[j] = x
Age(row) == CURRENT_DATE - row.issue_date_dt

\* The ordered chain of the Email Resolver, over a notion of "empty":
\* joined e-mail, else the address for the normalised responsible area.
AreaAddress(area) ==
    IF area = NULL THEN NULL
    ELSE IF upper(trim(area)) = WAREHOUSE THEN WAREHOUSE_EMAIL
    ELSE IF upper(trim(area)) = CUSTOMER_SUPPORT THEN SUPPORT_EMAIL
    ELSE IF upper(trim(area)) \in {FINANCE_OPS, FINANCE} THEN FINANCE_EMAIL
    ELSE NULL

OnlyChars(e, chars) == e # NULL /\ \A i \in 1..Len(e) : e[i] \in chars

NotExcludedTask(row) == \A k \in 1..Len(tarefas_excluir) : tarefas_excluir[k] # row.task_name

OtherPredicates(row) ==
    /\ NotExcludedTask(row)
    /\ row.processing_flag = Pending
    /\ row.cost_center = COST_CENTER_FILTRO
    /\ row.issue_date_dt # NULL_INT

\* C2: a resolved record is in the filtered set if and only if its task
\* name is not in the excluded list (a null task name is not), its flag is
\* Pending, its cost center is the configured one, its issue date parsed,
\* and its age in days exceeds SLA_DIAS.
C2_FilterIffFivePredicates ==
    Counted =>
        \A i \in 1..Len(df_base) :
            InSeq(df_base[i], df_filtrado)
                <=> (OtherPredicates(df_base[i]) /\ Age(df_base[i]) > SLA_DIAS)

\* C3: among the records that the other four where() conditions keep
\* (task name present and not excluded, Pending, configured cost center,
\* parsed issue date), one aged exactly SLA_DIAS days is left out and one
\* aged SLA_DIAS + 1 days is kept; nothing aged SLA_DIAS days or less is
\* ever in the filtered set.
C3_SlaBoundaryExclusive ==
    Counted =>
        /\ \A i \in 1..Len(df_base) :
              LET row == df_base[i]
              IN (OtherPredicates(row) /\ row.task_name # NULL) =>
                    /\ Age(row) = SLA_DIAS => ~InSeq(row, df_filtrado)
                    /\ Age(row) = SLA_DIAS + 1 => InSeq(row, df_filtrado)
        /\ \A j \in 1..Len(df_filtrado) :
              /\ df_filtrado[j].issue_date_dt # NULL_INT
              /\ Age(df_filtrado[j]) > SLA_DIAS

C3_BoundaryRecordLeftOut ==
    /\ Counted
    /\ qtd = 0
    /\ Len(df_base) = 1
    /\ OtherPredicates(df_base[1])
    /\ df_base[1].task_name # NULL
    /\ Age(df_base[1]) = SLA_DIAS

\* C4: a written artifact has min(qtd, MAX_LINHAS_EXCEL) rows, so never more
\* than the cap and never more than the filtered count the run reported.
C4_RowCapOfReportedCount ==
    artifact # <<>> =>
        /\ Len(artifact) = (IF qtd < MAX_LINHAS_EXCEL THEN qtd ELSE MAX_LINHAS_EXCEL)
        /\ Len(artifact) <= MAX_LINHAS_EXCEL
        /\ Len(artifact) <= qtd

\* C5 as stated: a finished run has made one send attempt when the
\* filtered count is above zero and none otherwise; never more than one.
C5_OneSendIffFiltered ==
    /\ Connects <= 1
    /\ Terminal => Connects = (IF qtd > 0 THEN 1 ELSE 0)

\* C5 as amended: a finished run has made one send attempt when the
\* filtered count is above zero and the report artifact was written, and
\* none otherwise; no run makes more than one.
C5_OneSendIffArtifact ==
    /\ Connects <= 1
    /\ Terminal => Connects = (IF qtd > 0 /\ artifact # <<>> THEN 1 ELSE 0)

C5_OneSendMade ==
    /\ Terminal
    /\ qtd > 0
    /\ artifact # <<>>
    /\ Connects = 1

SendCompleted ==
    /\ \E i \in 1..Len(smtp_log) : smtp_log[i].call = "smtp_sendmail" /\ smtp_log[i].ok
    /\ \A i \in 1..Len(smtp_log) : smtp_log[i].ok

\* C6: a run that gets through the metrics cell prints exactly one
\* summary; it is no_action with filtered_records 0 exactly when qtd is 0,
\* and email_sent (with the filtered count, the exported rows and the
\* artifact path) only after every SMTP call of the run, sendmail
\* included, returned.  No summary is printed otherwise.
C6_RunSummary ==
    /\ Len(metrics_out) = (IF pc = "done" THEN 1 ELSE 0)
    /\ \A i \in 1..Len(metrics_out) :
          LET m == metrics_out[i]
          IN /\ m.status \in {"no_action", "email_sent"}
             /\ m.status = "no_action" <=> qtd = 0
             /\ m.status = "no_action" => m.filtered_records = 0 /\ smtp_log = <<>>
             /\ m.status = "email_sent" =>
                   /\ SendCompleted
                   /\ m.filtered_records = qtd
                   /\ artifact # <<>>
                   /\ m.excel_rows = Len(artifact)
                   /\ m.excel_path = FILE_PATH

C6_EmailSentSummary ==
    /\ pc = "done"
    /\ metrics_out[1].status = "email_sent"
    /\ SendCompleted

\* C7: an SMTP call that raises is the last SMTP call of the run: the
\* connection was opened once, the run has failed with the SMTP error, and
\* no summary is printed.
C7_TransportFailureIsFatal ==
    \A i \in 1..Len(smtp_log) :
        ~smtp_log[i].ok =>
            /\ i = Len(smtp_log)
            /\ Connects = 1
            /\ pc = "failed"
            /\ error = "SMTPException"
            /\ metrics_out = <<>>

C7_LoginFailed ==
    /\ Len(smtp_log) = 3
    /\ smtp_log[3] = [call |-> "smtp_login", ok |-> FALSE]

CredentialMissing(secret_key, env_key) ==
    ~secret_ok[secret_key] /\ environ[env_key] \in {NULL, <<>>}

CredentialExpected(secret_key, env_key) ==
    IF secret_ok[secret_key] THEN SecretValue(secret_key) ELSE environ[env_key]

\* C8: each credential is the secret when the secret lookup succeeds and
\* the environment variable otherwise; with the lookup failing and the
\* variable unset or empty the run fails with ValueError, and it does so
\* before any Spark job, artifact, SMTP call or summary.
C8_CredentialResolution ==
    /\ SMTP_USER # NULL => SMTP_USER = CredentialExpected("USER", "SMTP_USER")
    /\ SMTP_PASSWORD # NULL =>
          SMTP_PASSWORD = CredentialExpected("PASSWORD", "SMTP_PASSWORD")
    /\ pc # "cred_user" =>
          IF CredentialMissing("USER", "SMTP_USER")
          THEN pc = "failed" /\ error = "ValueError" /\ SMTP_USER = NULL
          ELSE SMTP_USER # NULL
    /\ (pc \notin {"cred_user", "cred_password"} /\ SMTP_USER # NULL) =>
          IF CredentialMissing("PASSWORD", "SMTP_PASSWORD")
          THEN pc = "failed" /\ error = "ValueError" /\ SMTP_PASSWORD = NULL
          ELSE SMTP_PASSWORD # NULL
    /\ error = "ValueError" =>
          /\ jobs = 0
          /\ artifact = <<>>
          /\ smtp_log = <<>>
          /\ metrics_out = <<>>
          /\ \/ CredentialMissing("USER", "SMTP_USER")
             \/ CredentialMissing("PASSWORD", "SMTP_PASSWORD")

C8_EmptyPasswordVariable ==
    /\ error = "ValueError"
    /\ SMTP_USER = environ["SMTP_USER"]
    /\ ~secret_ok["PASSWORD"]
    /\ environ["SMTP_PASSWORD"] = <<>>

\* C9: when the filtered count is above zero and the collected selection
\* is empty, no artifact is written, no SMTP call is made, and no later
\* cell fails on a name that was never bound.
C9_EmptyExportHandled ==
    (qtd > 0 /\ "df_pandas" \in defined /\ df_pandas = <<>>) =>
        /\ artifact = <<>>
        /\ smtp_log = <<>>
        /\ error # "NameError"

\* C10: the resolver yields exactly one resolved record per scanned fact
\* record, whatever the directory holds, so the filtered set is never
\* larger than the fact table.
C10_OneResolvedRecordPerFact ==
    Counted =>
        /\ \A i \in 1..Len(df_fact_raw) :
              Cardinality({j \in 1..Len(df_base) :
                  df_base[j].document_id = df_fact_raw[i].document_id}) = 1
        /\ Len(df_filtrado) <= Len(df_fact_raw)

====
